---- MODULE Spec2Model ----
(***************************************************************************)
(* Model of the llm-proxy transport hook, loggingTransport.RoundTrip       *)
(* (main.go), with the helpers it calls: the JSON model remapping of the   *)
(* request body, replaceBody, isContentType, fixStreamingResponse and      *)
(* skipTextContainingSnapshot.                                             *)
(*                                                                         *)
(* Byte strings are kept at the level of their lexical structure:          *)
(*  - a request body is a JSON text: its kind, its members in the order    *)
(*    written, whether it carries insignificant whitespace;                *)
(*  - a response body is a sequence of pieces, one of which is the line    *)
(*    feed, the others fixed texts ("data: ", a JSON payload, ...).        *)
(* Two bodies are byte-identical exactly when these structures are equal.  *)
(***************************************************************************)
EXTENDS Integers, Sequences, FiniteSets, TLC

VARIABLES
    pc,                  \* position inside RoundTrip
    filterTextSnapshot,  \* loggingTransport.filterTextSnapshot
    client,              \* the request as RoundTrip received it (never changed)
    req,                 \* the mutable fields of *http.Request: Body, ContentLength
    fwdCalls,            \* requests handed to c.transport().RoundTrip, in order
    up,                  \* what c.transport().RoundTrip returned
    resp,                \* the mutable fields of *http.Response
    ret,                 \* what RoundTrip returned to its caller
    readLog,             \* the response-body reads RoundTrip performed
    hops                 \* number of proxy instances the response went through

vars == <<pc, filterTextSnapshot, client, req, fwdCalls, up, resp, ret, readLog, hops>>

None == [kind |-> "none"]

(***************************************************************************)
(* Bounds                                                                  *)
(***************************************************************************)
MaxLen == 5      \* pieces in a response body of the filter specification
MaxHops == 2     \* chained proxy instances in the filter specification

(***************************************************************************)
(* Strings and their byte lengths                                          *)
(***************************************************************************)
StrLen(s) ==
    CASE s = "some-dangerous-model" -> 20
      [] s = "less-safe-model"      -> 15
      [] s = "some-other-model"     -> 16
      [] s = "some-value"           -> 10
      [] s = "model"                -> 5
      [] s = "other_field"          -> 11
      [] s = "seed"                 -> 4

RECURSIVE DigitCount(_)
DigitCount(n) == IF n < 10 THEN 1 ELSE 1 + DigitCount(n \div 10)

(***************************************************************************)
(* JSON numbers.  A non-negative integer n is the pair hi, lo with         *)
(* n = hi * 10^9 + lo and lo < 10^9, so that values around 2^53 can be     *)
(* written with machine integers.                                          *)
(***************************************************************************)
Num(hi, lo) == [t |-> "num", hi |-> hi, lo |-> lo]
Str(s) == [t |-> "str", s |-> s]

\* 2^53 = 9007199 254740992
AtLeast2p53(hi, lo) == hi > 9007199 \/ (hi = 9007199 /\ lo >= 254740992)

\* The float64 nearest to the integer hi,lo (round half to even), as an
\* integer again.  Below 2^53 every integer is a float64; in [2^53, 2^54)
\* the float64 values are the even integers.
Float64Of(hi, lo) ==
    IF ~AtLeast2p53(hi, lo) \/ lo % 2 = 0
    THEN [hi |-> hi, lo |-> lo]
    ELSE IF lo % 4 = 1
         THEN [hi |-> hi, lo |-> lo - 1]
         ELSE IF lo + 1 = 10 ^ 9
              THEN [hi |-> hi + 1, lo |-> 0]
              ELSE [hi |-> hi, lo |-> lo + 1]

(***************************************************************************)
(* JSON texts of request bodies                                            *)
(***************************************************************************)
Member(k, v) == [k |-> k, v |-> v]
Object(members, ws) == [kind |-> "object", members |-> members, ws |-> ws]
NullText == [kind |-> "null", members |-> <<>>, ws |-> FALSE]
ArrayText == [kind |-> "array", members |-> <<>>, ws |-> FALSE]
GarbageText == [kind |-> "garbage", members |-> <<>>, ws |-> FALSE]
EmptyText == [kind |-> "empty", members |-> <<>>, ws |-> FALSE]

ValueLen(v) ==
    IF v.t = "str" THEN StrLen(v.s) + 2
    ELSE IF v.hi = 0 THEN DigitCount(v.lo) ELSE DigitCount(v.hi) + 9

RECURSIVE MembersLen(_)
MembersLen(ms) ==
    IF ms = <<>> THEN 0
    ELSE StrLen(Head(ms).k) + 3 + ValueLen(Head(ms).v)
         + (IF Len(ms) > 1 THEN 1 ELSE 0) + MembersLen(Tail(ms))

\* len(body): an object with whitespace has one space after every colon
\* and every comma.
TextLen(text) ==
    CASE text.kind = "object" ->
            2 + MembersLen(text.members)
            + (IF text.ws /\ text.members # <<>> THEN 2 * Len(text.members) - 1 ELSE 0)
      [] text.kind = "null"    -> 4
      [] text.kind = "array"   -> 24
      [] text.kind = "garbage" -> 8
      [] text.kind = "empty"   -> 0

\* The keys of the model in byte order, the order json.Marshal writes a map in.
KeyOrder == <<"model", "other_field", "seed">>

\* Index of the last member with key k, 0 when there is none.
RECURSIVE LastIndex(_, _)
LastIndex(ms, k) ==
    IF ms = <<>> THEN 0
    ELSE IF ms[Len(ms)].k = k THEN Len(ms)
    ELSE LastIndex(SubSeq(ms, 1, Len(ms) - 1), k)

\* What json.Unmarshal stores in an interface{} for a JSON value: a string
\* stays a string, a number becomes a float64.
GoValue(v) ==
    IF v.t = "str" THEN [t |-> "string", s |-> v.s]
    ELSE LET f == Float64Of(v.hi, v.lo) IN [t |-> "float64", hi |-> f.hi, lo |-> f.lo]

\* json.Unmarshal(body, &data) with data a nil map[string]interface{}: an
\* object fills the map, a later duplicate key overwriting an earlier one;
\* the literal null succeeds and leaves the map nil; anything else fails.
Unmarshal(text) ==
    CASE text.kind = "object" ->
            LET keys == {text.members[i].k : i \in 1..Len(text.members)}
            IN  [ok |-> TRUE,
                 data |-> [k \in keys |->
                            GoValue(text.members[LastIndex(text.members, k)].v)]]
      [] text.kind = "null" -> [ok |-> TRUE, data |-> <<>>]
      [] OTHER -> [ok |-> FALSE, data |-> <<>>]

\* The JSON value json.Marshal writes for a Go value: a float64 that is an
\* integer below 1e21 is written in full, without exponent.
JsonValue(g) ==
    IF g.t = "string" THEN Str(g.s) ELSE Num(g.hi, g.lo)

\* json.Marshal(data): compact, keys sorted.
Marshal(data) ==
    LET keys == SelectSeq(KeyOrder, LAMBDA k : k \in DOMAIN data)
    IN  Object([i \in 1..Len(keys) |-> Member(keys[i], JsonValue(data[keys[i]]))], FALSE)


(***************************************************************************)
(* Header values and content types are sequences of pieces, the text being *)
(* their concatenation: <<"application/json", ";", " charset=utf-8">>.     *)
(***************************************************************************)
JsonType == <<"application/json">>
JsonCharsetType == <<"application/json", ";", " charset=utf-8">>
JsonInvalidType == <<"application/json", "invalid">>
PlainType == <<"text/plain">>
EventStreamType == <<"text/event-stream">>
EventStreamCharsetType == <<"text/event-stream", ";", " charset=utf-8">>
MixedType == <<"multipart/mixed", ";", " part=", "text/event-stream">>

\* contentType == expected
TypeEquals(contentType, expected) == contentType = <<expected>>

\* strings.HasPrefix(contentType, expected+";")
TypeHasPrefixSemicolon(contentType, expected) ==
    Len(contentType) >= 2 /\ contentType[1] = expected /\ contentType[2] = ";"

\* strings.Contains(contentType, expected)
TypeContains(contentType, expected) ==
    \E i \in 1..Len(contentType) : contentType[i] = expected

isContentType(contentType, expected) ==
    TypeContains(contentType, expected) \/ TypeHasPrefixSemicolon(contentType, expected)

\* http.Header.Get: the value, or "" when the header is absent
HeaderGet(header, name) == IF name \in DOMAIN header THEN header[name] ELSE <<>>

\* http.Header.Set
HeaderSet(header, name, value) ==
    [n \in DOMAIN header \cup {name} |-> IF n = name THEN value ELSE header[n]]

\* http.Header.Del
HeaderDel(header, name) == [n \in DOMAIN header \ {name} |-> header[n]]

(***************************************************************************)
(* The mapping table of the transport (the table of the repository's test) *)
(***************************************************************************)
modelMap == [m \in {"some-dangerous-model"} |-> "less-safe-model"]

(***************************************************************************)
(* Body streams.  A Body is read once: a stream that was read to its end   *)
(* (or to its error) yields nothing more.                                  *)
(***************************************************************************)
Stream(bytes, broken) == [src |-> "stream", bytes |-> bytes, broken |-> broken, consumed |-> FALSE]

\* io.NopCloser(bytes.NewBuffer(b))
Buffer(bytes) == [src |-> "buffer", bytes |-> bytes, broken |-> FALSE, consumed |-> FALSE]

\* io.ReadAll(body): the bytes and whether the read ended in an error
ReadAll(body, empty) ==
    IF body.consumed THEN [bytes |-> empty, err |-> body.broken]
    ELSE [bytes |-> body.bytes, err |-> body.broken]

Consumed(body) == [body EXCEPT !.consumed = TRUE]

(***************************************************************************)
(* Requests                                                                *)
(***************************************************************************)
Dangerous == Str("some-dangerous-model")

\* 2^53 + 1, the smallest integer that is not a float64
Seed2p53Plus1 == Num(9007199, 254740993)

ReqBodies ==
    { Object(<<Member("model", Dangerous)>>, FALSE),
      Object(<<Member("model", Str("some-other-model"))>>, FALSE),
      Object(<<Member("model", Num(0, 123))>>, FALSE),
      Object(<<Member("other_field", Str("some-value"))>>, FALSE),
      Object(<<Member("model", Dangerous), Member("seed", Num(0, 123))>>, FALSE),
      Object(<<Member("seed", Num(0, 123)), Member("model", Dangerous)>>, TRUE),
      Object(<<Member("model", Dangerous), Member("seed", Seed2p53Plus1)>>, FALSE),
      Object(<<Member("seed", Seed2p53Plus1), Member("other_field", Str("some-value"))>>, TRUE),
      Object(<<>>, FALSE),
      NullText, ArrayText, GarbageText, EmptyText }

ReqContentTypes == {JsonType, JsonCharsetType, JsonInvalidType, PlainType, <<>>}

Requests ==
    [method : {"POST", "GET"}, contentType : ReqContentTypes,
     body : ReqBodies, readErr : {FALSE}, chunked : BOOLEAN]
    \cup
    [method : {"POST", "GET"}, contentType : {JsonType},
     body : {Object(<<Member("model", Dangerous)>>, FALSE), EmptyText},
     readErr : {TRUE}, chunked : {FALSE}]

\* http.Request.ContentLength as the server sets it: the declared length,
\* -1 for a chunked upload
InitialContentLength(c) == IF c.chunked THEN -1 ELSE TextLen(c.body)


(***************************************************************************)
(* Response bodies: sequences of pieces.  The pieces and their texts:      *)
(*   "\n"        the line feed                                             *)
(*   "data: "    the prefix of an SSE data line                            *)
(*   "SNAP"      {"type":"text","text":"I'm open","snapshot":"I'm open"}   *)
(*   "SNAPNULL"  {"type":"text","snapshot":null}                           *)
(*   "TEXT"      {"type":"text","text":"hi"}                               *)
(*   "DELTA"     {"type":"delta","snapshot":"x"}                           *)
(*   "NUMTYPE"   {"type":1,"snapshot":"x"}                                 *)
(*   "TRUNC"     {"type":"text","snapshot"      (cut short: not JSON)      *)
(*   "[DONE]", "null", " ", "event: ping", and                             *)
(*   "ERR"       {"error":"not found"}                                     *)
(***************************************************************************)
NL == "\n"
DataPrefix == "data: "

PieceLen(p) ==
    CASE p = NL -> 1
      [] p = DataPrefix -> 6
      [] p = "SNAP" -> 55
      [] p = "SNAPNULL" -> 31
      [] p = "TEXT" -> 27
      [] p = "DELTA" -> 31
      [] p = "NUMTYPE" -> 25
      [] p = "TRUNC" -> 25
      [] p = "[DONE]" -> 6
      [] p = "null" -> 4
      [] p = " " -> 1
      [] p = "event: ping" -> 11
      [] p = "ERR" -> 21

\* len(body)
RECURSIVE BodyLen(_)
BodyLen(body) == IF body = <<>> THEN 0 ELSE PieceLen(Head(body)) + BodyLen(Tail(body))

GoString(s) == [t |-> "string", s |-> s]
GoNil == [t |-> "nil"]

\* The pieces that are JSON objects, with the map json.Unmarshal builds.
ObjectPieces == {"SNAP", "SNAPNULL", "TEXT", "DELTA", "NUMTYPE", "ERR"}

PieceData(p) ==
    CASE p = "SNAP" -> [k \in {"type", "text", "snapshot"} |->
                          IF k = "type" THEN GoString("text") ELSE GoString("I'm open")]
      [] p = "SNAPNULL" -> [k \in {"type", "snapshot"} |->
                          IF k = "type" THEN GoString("text") ELSE GoNil]
      [] p = "TEXT" -> [k \in {"type", "text"} |->
                          IF k = "type" THEN GoString("text") ELSE GoString("hi")]
      [] p = "DELTA" -> [k \in {"type", "snapshot"} |->
                          IF k = "type" THEN GoString("delta") ELSE GoString("x")]
      [] p = "NUMTYPE" -> [k \in {"type", "snapshot"} |->
                          IF k = "type" THEN [t |-> "float64", hi |-> 0, lo |-> 1]
                          ELSE GoString("x")]
      [] p = "ERR" -> [k \in {"error"} |-> GoString("not found")]

\* JSON allows white space around the value.
RECURSIVE TrimSpace(_)
TrimSpace(text) ==
    IF text # <<>> /\ Head(text) \in {" ", NL} THEN TrimSpace(Tail(text))
    ELSE IF text # <<>> /\ text[Len(text)] \in {" ", NL}
         THEN TrimSpace(SubSeq(text, 1, Len(text) - 1))
         ELSE text

\* json.Unmarshal([]byte(jsonData), &data) on the payload of a data line
UnmarshalPayload(jsonData) ==
    LET t == TrimSpace(jsonData)
    IN  IF Len(t) = 1 /\ t[1] \in ObjectPieces THEN [ok |-> TRUE, data |-> PieceData(t[1])]
        ELSE IF t = <<"null">> THEN [ok |-> TRUE, data |-> <<>>]
        ELSE [ok |-> FALSE, data |-> <<>>]

\* strings.Split(string(body), "\n")
RECURSIVE Split(_)
Split(body) ==
    IF \A i \in 1..Len(body) : body[i] # NL THEN <<body>>
    ELSE LET i == CHOOSE j \in 1..Len(body) :
                      body[j] = NL /\ \A k \in 1..(j - 1) : body[k] # NL
         IN  <<SubSeq(body, 1, i - 1)>> \o Split(SubSeq(body, i + 1, Len(body)))

\* strings.Join(lines, "\n")
RECURSIVE Join(_)
Join(lines) ==
    IF lines = <<>> THEN <<>>
    ELSE IF Len(lines) = 1 THEN lines[1]
    ELSE lines[1] \o <<NL>> \o Join(Tail(lines))

\* Mutant: a snapshot that is null does not count as present.
skipTextContainingSnapshot_NonNil(data) ==
    /\ "type" \in DOMAIN data
    /\ data["type"].t = "string"
    /\ data["type"].s = "text"
    /\ "snapshot" \in DOMAIN data
    /\ data["snapshot"] # GoNil

skipTextContainingSnapshot(data) ==
    /\ "type" \in DOMAIN data
    /\ data["type"].t = "string"
    /\ data["type"].s = "text"
    /\ "snapshot" \in DOMAIN data

\* Mutant: after a dropped line the next line is kept without a look at it.
RECURSIVE FilterLoop_SkipsAfterDrop(_, _, _, _)
FilterLoop_SkipsAfterDrop(lines, i, newLines, modified) ==
    IF i > Len(lines) THEN [newLines |-> newLines, modified |-> modified]
    ELSE LET line == lines[i]
             jsonData == Tail(line)
             u == UnmarshalPayload(jsonData)
             keep == FilterLoop_SkipsAfterDrop(lines, i + 1, Append(newLines, line), modified)
         IN  IF ~(line # <<>> /\ Head(line) = DataPrefix) THEN keep
             ELSE IF jsonData = <<"[DONE]">> \/ jsonData = <<>> THEN keep
             ELSE IF ~u.ok THEN keep
             ELSE IF skipTextContainingSnapshot(u.data)
             THEN IF i + 1 <= Len(lines)
                  THEN FilterLoop_SkipsAfterDrop(lines, i + 2, Append(newLines, lines[i + 1]), TRUE)
                  ELSE FilterLoop_SkipsAfterDrop(lines, i + 1, newLines, TRUE)
             ELSE keep

\* The loop of fixStreamingResponse over lines[i..], with the newLines and
\* the modified flag built so far.
RECURSIVE FilterLoop(_, _, _, _)
FilterLoop(lines, i, newLines, modified) ==
    IF i > Len(lines) THEN [newLines |-> newLines, modified |-> modified]
    ELSE LET line == lines[i]
             jsonData == Tail(line)
             u == UnmarshalPayload(jsonData)
         IN  IF ~(line # <<>> /\ Head(line) = DataPrefix)
             THEN FilterLoop(lines, i + 1, Append(newLines, line), modified)
             ELSE IF jsonData = <<"[DONE]">> \/ jsonData = <<>>
             THEN FilterLoop(lines, i + 1, Append(newLines, line), modified)
             ELSE IF ~u.ok
             THEN FilterLoop(lines, i + 1, Append(newLines, line), modified)
             ELSE IF skipTextContainingSnapshot(u.data)
             THEN FilterLoop(lines, i + 1, newLines, TRUE)
             ELSE FilterLoop(lines, i + 1, Append(newLines, line), modified)

fixStreamingResponse(body) ==
    LET r == FilterLoop(Split(body), 1, <<>>, FALSE)
    IN  IF r.modified THEN Join(r.newLines) ELSE body

\* fmt.Sprintf("%d", n) for n >= 0, one piece per digit
DigitChars == <<"0", "1", "2", "3", "4", "5", "6", "7", "8", "9">>

RECURSIVE Itoa(_)
Itoa(n) ==
    IF n < 10 THEN <<DigitChars[n + 1]>>
    ELSE Itoa(n \div 10) \o <<DigitChars[(n % 10) + 1]>>

\* Mutant: the Transfer-Encoding header is left in place.
replaceBody_KeepsTransferEncoding(r, body) ==
    [r EXCEPT !.body = Buffer(body),
              !.contentLength = BodyLen(body),
              !.header = HeaderSet(@, "Content-Length", Itoa(BodyLen(body)))]

replaceBody(r, body) ==
    [r EXCEPT !.body = Buffer(body),
              !.contentLength = BodyLen(body),
              !.header = HeaderDel(HeaderSet(@, "Content-Length", Itoa(BodyLen(body))),
                                   "Transfer-Encoding")]


(***************************************************************************)
(* What the forwarding capability, c.transport().RoundTrip, may return     *)
(***************************************************************************)
UpStatuses == {101, 200, 299, 300, 404}

UpContentTypes == {EventStreamType, EventStreamCharsetType, MixedType, JsonType}

UpBodies ==
    { <<>>,
      <<DataPrefix, "SNAP", NL, DataPrefix, "[DONE]", NL>>,
      <<DataPrefix, "TEXT", NL>>,
      <<"event: ping", NL, DataPrefix, " ", "SNAPNULL", NL, DataPrefix, "null", NL, NL>>,
      <<"ERR">> }

\* The response object of the transport.  A known length comes with a
\* Content-Length header; an unknown one with ContentLength -1 and either a
\* Transfer-Encoding header or (net/http's own transport, which moves the
\* encoding out of the header) neither header.
UpFramings == {"length", "chunked", "unknown"}

UpResponse(status, contentType, framing, body, broken) ==
    [status |-> status,
     header |-> [n \in {"Content-Type", "X-Request-Id"}
                      \cup (CASE framing = "length" -> {"Content-Length"}
                              [] framing = "chunked" -> {"Transfer-Encoding"}
                              [] framing = "unknown" -> {}) |->
                 CASE n = "Content-Type" -> contentType
                   [] n = "X-Request-Id" -> <<"req-1">>
                   [] n = "Transfer-Encoding" -> <<"chunked">>
                   [] n = "Content-Length" -> Itoa(BodyLen(body))],
     contentLength |-> IF framing = "length" THEN BodyLen(body) ELSE -1,
     body |-> Stream(body, broken)]

UpResponses ==
    {UpResponse(st, ct, fr, b, br) :
        st \in UpStatuses, ct \in UpContentTypes, fr \in UpFramings,
        b \in UpBodies, br \in BOOLEAN}

UpError == [kind |-> "error", err |-> "dial tcp: connection refused"]

UpResults == {UpError} \cup {[kind |-> "resp", resp |-> r] : r \in UpResponses}

\* The request as the transport sees it: the bytes it can read from the
\* Body it was handed, and the ContentLength field.
Seen(r) ==
    LET got == ReadAll(r.body, EmptyText)
    IN  [body |-> got.bytes, readErr |-> got.err,
         src |-> r.body.src, contentLength |-> r.contentLength]

(***************************************************************************)
(* loggingTransport.RoundTrip                                              *)
(***************************************************************************)
Init ==
    /\ pc = "start"
    /\ filterTextSnapshot \in BOOLEAN
    /\ client \in Requests
    /\ req = [body |-> Stream(client.body, client.readErr),
              contentLength |-> InitialContentLength(client)]
    /\ fwdCalls = <<>>
    /\ up = None
    /\ resp = None
    /\ ret = None
    /\ readLog = <<>>
    /\ hops = 1

\* Mutant: strings.HasPrefix(contentType, "application/json"), without the ";"
Qualifies_AnyJsonPrefix(c) ==
    /\ c.method = "POST"
    /\ Len(c.contentType) >= 1
    /\ c.contentType[1] = "application/json"

\* The condition under which the body is looked at for a model to remap.
Qualifies(c) ==
    /\ c.method = "POST"
    /\ \/ TypeEquals(c.contentType, "application/json")
       \/ TypeHasPrefixSemicolon(c.contentType, "application/json")

\* The remapping of the buffered body: the request fields after it.
Remap(c, r) ==
    LET body == r.body.bytes
        u == Unmarshal(body)
    IN  IF /\ Qualifies(c)
           /\ u.ok
           /\ "model" \in DOMAIN u.data
           /\ u.data["model"].t = "string"
           /\ u.data["model"].s \in DOMAIN modelMap
        THEN LET data == [u.data EXCEPT !["model"] = GoString(modelMap[u.data["model"].s])]
                 modifiedBody == Marshal(data)
             IN  [body |-> Buffer(modifiedBody), contentLength |-> TextLen(modifiedBody)]
        ELSE r

\* The request fields once the body was read without error.
Buffered(c, r) == Remap(c, [r EXCEPT !.body = Buffer(ReadAll(r.body, EmptyText).bytes)])

\* Reading the request body, and on success restoring and remapping it.
ReadRequest ==
    /\ pc = "start"
    /\ IF ReadAll(req.body, EmptyText).err
       THEN /\ req' = [req EXCEPT !.body = Consumed(@)]
            /\ pc' = "forward_raw"
       ELSE /\ req' = Buffered(client, req)
            /\ pc' = "forward"
    /\ UNCHANGED <<filterTextSnapshot, client, fwdCalls, up, resp, ret, readLog, hops>>

\* After a failed read of the request body: return c.transport().RoundTrip(req)
ForwardRaw ==
    /\ pc = "forward_raw"
    /\ \E result \in UpResults :
         /\ up' = result
         /\ resp' = IF result.kind = "resp" THEN result.resp ELSE None
         /\ ret' = result
    /\ fwdCalls' = Append(fwdCalls, Seen(req))
    /\ pc' = "done"
    /\ UNCHANGED <<filterTextSnapshot, client, req, readLog, hops>>

\* Mutant: a failed exchange is tried a second time.
Forward_Retry ==
    /\ pc = "forward"
    /\ \E result \in UpResults :
         /\ up' = result
         /\ IF result.kind = "error"
            THEN /\ resp' = None
                 /\ ret' = [kind |-> "error", err |-> result.err]
                 /\ pc' = "done"
                 /\ fwdCalls' = fwdCalls \o <<Seen(req), Seen(req)>>
            ELSE /\ resp' = result.resp
                 /\ ret' = None
                 /\ pc' = "postprocess"
                 /\ fwdCalls' = Append(fwdCalls, Seen(req))
    /\ UNCHANGED <<filterTextSnapshot, client, req, readLog, hops>>

\* resp, err := c.transport().RoundTrip(req)
Forward ==
    /\ pc = "forward"
    /\ \E result \in UpResults :
         /\ up' = result
         /\ IF result.kind = "error"
            THEN /\ resp' = None
                 /\ ret' = [kind |-> "error", err |-> result.err]
                 /\ pc' = "done"
            ELSE /\ resp' = result.resp
                 /\ ret' = None
                 /\ pc' = "postprocess"
    /\ fwdCalls' = Append(fwdCalls, Seen(req))
    /\ UNCHANGED <<filterTextSnapshot, client, req, readLog, hops>>

\* Mutant: a failed read of the event stream is returned as an error.
PostProcessSuccess_ErrorOnFailedRead(r) ==
    LET contentType == HeaderGet(r.header, "Content-Type")
        got == ReadAll(r.body, <<>>)
    IN  IF filterTextSnapshot /\ isContentType(contentType, "text/event-stream")
        THEN IF got.err
             THEN [resp |-> [r EXCEPT !.body = Consumed(@)],
                   ret |-> "error", reads |-> <<"failed">>]
             ELSE [resp |-> replaceBody(r, fixStreamingResponse(got.bytes)),
                   ret |-> "resp", reads |-> <<"ok">>]
        ELSE [resp |-> r, ret |-> "resp", reads |-> <<>>]

\* Mutant: the framing headers are rewritten only when the filter changed
\* the body.
PostProcessSuccess_ReplaceOnlyIfChanged(r) ==
    LET contentType == HeaderGet(r.header, "Content-Type")
        got == ReadAll(r.body, <<>>)
        modifiedBody == fixStreamingResponse(got.bytes)
    IN  IF filterTextSnapshot /\ isContentType(contentType, "text/event-stream")
        THEN IF got.err
             THEN [resp |-> [r EXCEPT !.body = Consumed(@)],
                   ret |-> "resp", reads |-> <<"failed">>]
             ELSE IF modifiedBody = got.bytes
             THEN [resp |-> [r EXCEPT !.body = Buffer(got.bytes)],
                   ret |-> "resp", reads |-> <<"ok">>]
             ELSE [resp |-> replaceBody(r, modifiedBody),
                   ret |-> "resp", reads |-> <<"ok">>]
        ELSE [resp |-> r, ret |-> "resp", reads |-> <<>>]

\* Mutant: the filter flag is not consulted.
PostProcessSuccess_IgnoresFlag(r) ==
    LET contentType == HeaderGet(r.header, "Content-Type")
        got == ReadAll(r.body, <<>>)
    IN  IF isContentType(contentType, "text/event-stream")
        THEN IF got.err
             THEN [resp |-> [r EXCEPT !.body = Consumed(@)],
                   ret |-> "resp", reads |-> <<"failed">>]
             ELSE [resp |-> replaceBody(r, fixStreamingResponse(got.bytes)),
                   ret |-> "resp", reads |-> <<"ok">>]
        ELSE [resp |-> r, ret |-> "resp", reads |-> <<>>]

\* The branch for a status in [200, 300)
PostProcessSuccess(r) ==
    LET contentType == HeaderGet(r.header, "Content-Type")
        got == ReadAll(r.body, <<>>)
    IN  IF filterTextSnapshot /\ isContentType(contentType, "text/event-stream")
        THEN IF got.err
             THEN [resp |-> [r EXCEPT !.body = Consumed(@)],
                   ret |-> "resp", reads |-> <<"failed">>]
             ELSE [resp |-> replaceBody(r, fixStreamingResponse(got.bytes)),
                   ret |-> "resp", reads |-> <<"ok">>]
        ELSE [resp |-> r, ret |-> "resp", reads |-> <<>>]

\* The branch for a status >= 300
PostProcessError(r) ==
    LET got == ReadAll(r.body, <<>>)
    IN  IF got.err
        THEN [resp |-> [r EXCEPT !.body = Consumed(@)],
              ret |-> "error", reads |-> <<"failed">>]
        ELSE [resp |-> replaceBody(r, got.bytes), ret |-> "resp", reads |-> <<"ok">>]

\* What RoundTrip does with the response of the transport.
Processed(r) ==
    IF r.status >= 200 /\ r.status < 300 THEN PostProcessSuccess(r)
    ELSE IF r.status >= 300 THEN PostProcessError(r)
    ELSE [resp |-> r, ret |-> "resp", reads |-> <<>>]

ReadError == "unexpected EOF"

PostProcess ==
    /\ pc = "postprocess"
    /\ LET p == Processed(resp)
       IN  /\ resp' = p.resp
           /\ readLog' = readLog \o p.reads
           /\ ret' = IF p.ret = "error"
                     THEN [kind |-> "error", err |-> ReadError]
                     ELSE [kind |-> "resp", resp |-> p.resp]
    /\ pc' = "done"
    /\ UNCHANGED <<filterTextSnapshot, client, req, fwdCalls, up, hops>>

Next == ReadRequest \/ ForwardRaw \/ Forward \/ PostProcess

Spec == Init /\ [][Next]_vars


(***************************************************************************)
(* The filter on its own: a proxy with the filter enabled receives a 2xx   *)
(* event stream whose body is any sequence of at most MaxLen pieces, and   *)
(* its response is in turn the upstream response of a further proxy        *)
(* instance.                                                               *)
(***************************************************************************)
SsePieces ==
    {NL, DataPrefix, "SNAPNULL", "TEXT", "DELTA", "NUMTYPE", "TRUNC", "[DONE]"}

SseBodies == UNION {[1..n -> SsePieces] : n \in 0..MaxLen}

FilterClient ==
    [method |-> "POST", contentType |-> JsonType,
     body |-> Object(<<Member("model", Dangerous)>>, FALSE),
     readErr |-> FALSE, chunked |-> FALSE]

InitFilter ==
    /\ pc = "postprocess"
    /\ filterTextSnapshot = TRUE
    /\ client = FilterClient
    /\ req = Buffered(client, [body |-> Stream(client.body, client.readErr),
                               contentLength |-> InitialContentLength(client)])
    /\ fwdCalls = <<Seen(req)>>
    /\ \E b \in SseBodies :
         up = [kind |-> "resp", resp |-> UpResponse(200, EventStreamType, "chunked", b, FALSE)]
    /\ resp = up.resp
    /\ ret = None
    /\ readLog = <<>>
    /\ hops = 1

\* The response RoundTrip returned is what the transport of the next proxy
\* instance returns.
Chain ==
    /\ pc = "done"
    /\ ret.kind = "resp"
    /\ hops < MaxHops
    /\ up' = ret
    /\ resp' = ret.resp
    /\ ret' = None
    /\ readLog' = <<>>
    /\ hops' = hops + 1
    /\ pc' = "postprocess"
    /\ UNCHANGED <<filterTextSnapshot, client, req, fwdCalls>>

NextFilter == PostProcess \/ Chain

FilterSpec == InitFilter /\ [][NextFilter]_vars


(***************************************************************************)
(* Vocabulary of the properties                                            *)
(***************************************************************************)
\* The keys of a JSON object text and the value written for a key (the last
\* one, should the key be written twice).
Keys(text) == {text.members[i].k : i \in 1..Len(text.members)}
ExactValue(text, k) == text.members[LastIndex(text.members, k)].v

\* The request is a POST of JSON whose body is an object with a string
\* "model" that is a key of the mapping table.
RemapCase(c) ==
    /\ c.method = "POST"
    /\ \/ c.contentType = <<"application/json">>
       \/ (Len(c.contentType) >= 2 /\ c.contentType[1] = "application/json"
           /\ c.contentType[2] = ";")
    /\ c.body.kind = "object"
    /\ "model" \in Keys(c.body)
    /\ ExactValue(c.body, "model").t = "str"
    /\ ExactValue(c.body, "model").s \in DOMAIN modelMap

Forwarded == Len(fwdCalls) >= 1
Returned == pc = "done"
ReturnedResponse == pc = "done" /\ ret.kind = "resp"
Is2xx(r) == r.status >= 200 /\ r.status < 300

\* The decimal number a header value spells.
DigitValue(d) == CHOOSE i \in 0..9 : DigitChars[i + 1] = d
RECURSIVE Atoi(_)
Atoi(digits) ==
    IF Len(digits) = 1 THEN DigitValue(digits[1])
    ELSE 10 * Atoi(SubSeq(digits, 1, Len(digits) - 1)) + DigitValue(digits[Len(digits)])

\* Lines of an event stream.
IsDataLine(line) == line # <<>> /\ Head(line) = DataPrefix

TextSnapshotPieces ==
    {p \in ObjectPieces :
        /\ "type" \in DOMAIN PieceData(p)
        /\ PieceData(p)["type"] = GoString("text")
        /\ "snapshot" \in DOMAIN PieceData(p)}

\* A data line whose payload is a JSON object of type "text" with a snapshot.
IsSnapshotLine(line) ==
    /\ IsDataLine(line)
    /\ \E p \in TextSnapshotPieces : TrimSpace(Tail(line)) = <<p>>

KeptLines(body) == SelectSeq(Split(body), LAMBDA l : ~IsSnapshotLine(l))
CountLines(lines, P(_)) == Cardinality({i \in 1..Len(lines) : P(lines[i])})
DropsNothing(body) == \A i \in 1..Len(Split(body)) : ~IsSnapshotLine(Split(body)[i])

(***************************************************************************)
(* C1.  A qualifying request whose model is a key of the mapping table is  *)
(* forwarded with a body that is a JSON object with model replaced by the  *)
(* mapped name and every other top-level field equal to its value in the   *)
(* original body.  (Violated: a number that is not a float64 is altered.)  *)
(***************************************************************************)
C1_RemapKeepsOtherFields ==
    (Forwarded /\ ~client.readErr /\ RemapCase(client)) =>
        LET got == fwdCalls[1].body
        IN  /\ got.kind = "object"
            /\ Keys(got) = Keys(client.body)
            /\ ExactValue(got, "model") = Str(modelMap[ExactValue(client.body, "model").s])
            /\ \A k \in Keys(client.body) \ {"model"} :
                   ExactValue(got, k) = ExactValue(client.body, k)

C3_FilterDropsExactlySnapshotLines ==
    ReturnedResponse =>
        LET in == up.resp.body.bytes
            out == ret.resp.body.bytes
        IN  /\ out = Join(KeptLines(in))
            /\ CountLines(Split(out), IsDataLine)
                 = CountLines(Split(in), IsDataLine) - CountLines(Split(in), IsSnapshotLine)

C3_Witness ==
    /\ ReturnedResponse
    /\ hops = 1
    /\ up.resp.body.bytes = <<DataPrefix, "SNAPNULL", NL, DataPrefix, "TRUNC">>
    /\ ret.resp.body.bytes = <<DataPrefix, "TRUNC">>

(***************************************************************************)
(* C4.  Whenever RoundTrip replaced the response body, the Content-Length  *)
(* header and the ContentLength field both equal the byte length of the    *)
(* new body and there is no Transfer-Encoding header.                      *)
(***************************************************************************)
C4_ReplacedBodyFraming ==
    (ReturnedResponse /\ ret.resp.body.src = "buffer") =>
        /\ "Content-Length" \in DOMAIN ret.resp.header
        /\ Atoi(ret.resp.header["Content-Length"]) = BodyLen(ret.resp.body.bytes)
        /\ ret.resp.contentLength = BodyLen(ret.resp.body.bytes)
        /\ "Transfer-Encoding" \notin DOMAIN ret.resp.header

C4_Witness ==
    /\ ReturnedResponse
    /\ ret.resp.body.src = "buffer"
    /\ up.resp.status = 200
    /\ "Transfer-Encoding" \in DOMAIN up.resp.header
    /\ up.resp.body.bytes = <<DataPrefix, "SNAP", NL, DataPrefix, "[DONE]", NL>>
    /\ ret.resp.body.bytes = <<DataPrefix, "[DONE]", NL>>
    /\ ret.resp.header["Content-Length"] = <<"1", "3">>

(***************************************************************************)
(* C5.  Every response with a status >= 300 that RoundTrip returns was     *)
(* buffered and replaced: same bytes as upstream, Content-Length equal to  *)
(* their number, no Transfer-Encoding header; on every path, the one after *)
(* a failed read of the request body included.  (Violated on that path.)   *)
(***************************************************************************)
C5_ErrorStatusAlwaysReplaced ==
    (ReturnedResponse /\ ret.resp.status >= 300) =>
        /\ ret.resp.body.src = "buffer"
        /\ ret.resp.body.bytes = up.resp.body.bytes
        /\ "Content-Length" \in DOMAIN ret.resp.header
        /\ Atoi(ret.resp.header["Content-Length"]) = BodyLen(ret.resp.body.bytes)
        /\ "Transfer-Encoding" \notin DOMAIN ret.resp.header

(***************************************************************************)
(* C6.  The SSE line filter is idempotent: applied to its own output it    *)
(* drops no line and returns that output unchanged.                        *)
(***************************************************************************)
C6_FilterIdempotent ==
    (hops >= 2 /\ pc \in {"postprocess", "done"}) =>
        /\ DropsNothing(up.resp.body.bytes)
        /\ ReturnedResponse => ret.resp.body.bytes = up.resp.body.bytes

C6_Witness ==
    /\ ReturnedResponse
    /\ hops = 2
    /\ up.resp.body.bytes = <<DataPrefix, "TEXT", NL, DataPrefix, "NUMTYPE">>
    /\ ret.resp.body.bytes = up.resp.body.bytes

(***************************************************************************)
(* C7.  RoundTrip returns an error, and no response, exactly when the      *)
(* transport returned an error (that error is returned) or the body of a   *)
(* response with status >= 300 could not be read.  A failed read of the    *)
(* request body or of a 2xx event stream is not returned as an error.      *)
(***************************************************************************)
C7_ErrorsReturned ==
    Returned =>
        /\ ret.kind \in {"resp", "error"}
        /\ ret.kind = "error" <=>
              \/ up.kind = "error"
              \/ (up.kind = "resp" /\ up.resp.status >= 300 /\ readLog = <<"failed">>)
        /\ up.kind = "error" => ret = [kind |-> "error", err |-> up.err]
        /\ (client.readErr /\ up.kind = "resp") => ret.kind = "resp"
        /\ (up.kind = "resp" /\ Is2xx(up.resp) /\ readLog = <<"failed">>) => ret.kind = "resp"

C7_Witness ==
    /\ Returned
    /\ up.kind = "resp"
    /\ Is2xx(up.resp)
    /\ readLog = <<"failed">>
    /\ ret.kind = "resp"

(***************************************************************************)
(* C8 as stated.  On a 2xx event stream with the filter enabled, the       *)
(* Content-Length and Transfer-Encoding headers are modified only if the   *)
(* filter dropped a line: when it dropped none, the headers are exactly    *)
(* those received.  (Violated: the body is replaced and the framing        *)
(* headers rewritten whenever the body was read.)                          *)
(***************************************************************************)
C8_HeadersKeptWhenNothingDropped ==
    (/\ ReturnedResponse
     /\ ~client.readErr
     /\ filterTextSnapshot
     /\ Is2xx(up.resp)
     /\ isContentType(HeaderGet(up.resp.header, "Content-Type"), "text/event-stream")
     /\ DropsNothing(up.resp.body.bytes)) =>
        ret.resp.header = up.resp.header

(***************************************************************************)
(* C8 amended.  On a 2xx event stream with the filter enabled whose body   *)
(* was read without error, the body is always replaced by the filter's     *)
(* output, Content-Length is set to its byte length and Transfer-Encoding  *)
(* removed, whether or not a line was dropped; when no line was dropped    *)
(* the bytes are those received; every other header is as received.        *)
(***************************************************************************)
C8_BodyAlwaysReplacedOnFilteredStream ==
    (/\ ReturnedResponse
     /\ ~client.readErr
     /\ filterTextSnapshot
     /\ Is2xx(up.resp)
     /\ isContentType(HeaderGet(up.resp.header, "Content-Type"), "text/event-stream")
     /\ ~up.resp.body.broken) =>
        /\ ret.resp.body.src = "buffer"
        /\ ret.resp.body.bytes = Join(KeptLines(up.resp.body.bytes))
        /\ DropsNothing(up.resp.body.bytes) => ret.resp.body.bytes = up.resp.body.bytes
        /\ DOMAIN ret.resp.header = (DOMAIN up.resp.header \cup {"Content-Length"})
                                       \ {"Transfer-Encoding"}
        /\ Atoi(ret.resp.header["Content-Length"]) = BodyLen(ret.resp.body.bytes)
        /\ \A n \in DOMAIN up.resp.header \ {"Content-Length", "Transfer-Encoding"} :
               ret.resp.header[n] = up.resp.header[n]

C8_Witness ==
    /\ ReturnedResponse
    /\ ~client.readErr
    /\ filterTextSnapshot
    /\ up.resp.status = 200
    /\ up.resp.header["Content-Type"] = EventStreamCharsetType
    /\ "Transfer-Encoding" \in DOMAIN up.resp.header
    /\ up.resp.body.bytes = <<DataPrefix, "TEXT", NL>>
    /\ ret.resp.body.bytes = up.resp.body.bytes
    /\ ret.resp.header # up.resp.header

(***************************************************************************)
(* C9.  The transport is invoked exactly once per exchange and never       *)
(* again: with the buffered, possibly remapped request after the body was  *)
(* read, with the original request object, not remapped, when reading the  *)
(* body failed; not again after an error or a failed response-body read.   *)
(***************************************************************************)
C9_ForwardedExactlyOnce ==
    /\ Len(fwdCalls) <= 1
    /\ pc \in {"postprocess", "done"} => Len(fwdCalls) = 1
    /\ (Forwarded /\ ~client.readErr) => fwdCalls[1].src = "buffer"
    /\ (Forwarded /\ client.readErr) =>
          /\ fwdCalls[1].src = "stream"
          /\ fwdCalls[1].contentLength = InitialContentLength(client)
          /\ req.body.src = "stream"
          /\ req.body.bytes = client.body

C9_Witness ==
    /\ Returned
    /\ ret.kind = "error"
    /\ client.readErr
    /\ Len(fwdCalls) = 1
    /\ fwdCalls[1].src = "stream"

(***************************************************************************)
(* C10.  The filter is applied only when the flag is enabled, the status   *)
(* is in [200,300) and the Content-Type contains text/event-stream.  A 2xx *)
(* response with the flag disabled or another Content-Type is returned     *)
(* with its body stream unread and its body and headers as received; a     *)
(* response with a status outside [200,300) is never filtered.             *)
(***************************************************************************)
C10_FilterOnlyOnEnabled2xxEventStream ==
    ReturnedResponse =>
        LET matches == \E i \in 1..Len(HeaderGet(up.resp.header, "Content-Type")) :
                          HeaderGet(up.resp.header, "Content-Type")[i] = "text/event-stream"
        IN  /\ (Is2xx(up.resp) /\ readLog # <<>>) => (filterTextSnapshot /\ matches)
            /\ (Is2xx(up.resp) /\ ~(filterTextSnapshot /\ matches)) =>
                  (readLog = <<>> /\ ret.resp = up.resp /\ ~ret.resp.body.consumed)
            /\ ~Is2xx(up.resp) => ret.resp.body.bytes = up.resp.body.bytes

C10_Witness ==
    /\ ReturnedResponse
    /\ ~client.readErr
    /\ ~filterTextSnapshot
    /\ up.resp.status = 299
    /\ up.resp.header["Content-Type"] = EventStreamType
    /\ up.resp.body.bytes = <<DataPrefix, "SNAP", NL, DataPrefix, "[DONE]", NL>>
    /\ ret.resp = up.resp

====
